---- MODULE Spec2Model ----
(***************************************************************************)
(* The toroidal Surface of the iterated prisoner's dilemma simulation      *)
(* (src/Surface.py): the grid `map`, the live-set `_all_cells`, the        *)
(* counters, the public get/set, and tick() with its phases, driven as     *)
(* the __main__ block of Surface.py drives it; and the strategy of a Cell:  *)
(* the decision tree of src/Gene.py and the payoffs of src/ScoreMatrix.py.  *)
(*                                                                         *)
(* A Cell object is an index into `cells` (its identity); None is 0.       *)
(* Ratios are rationals num / RatioDen.                                    *)
(***************************************************************************)
EXTENDS Integers, Sequences, FiniteSets, TLC

\* ---------------------------------------------------------------- bounds
MaxWidth == 3      \* width ranges over 1..MaxWidth
MaxHeight == 2     \* height ranges over 1..MaxHeight
MaxGens == 1       \* the driver calls tick() at most MaxGens times
MaxInters == 1     \* params['interactions'] ranges over 0..MaxInters
MaxScore == 2      \* a Cell's score ranges over 0..MaxScore
RatioDen == 2      \* the ratios range over {0/RatioDen .. RatioDen/RatioDen}
MaxCoord == 1      \* a caller of set() passes coordinates in -MaxCoord..MaxCoord
MaxApiCells == 2   \* Cells a caller of set() creates
MaxLen == 4        \* a Gene's sequence has 2..MaxLen symbols (index 0 included)
MaxHist == 3       \* a history has 0..MaxHist moves
MaxMem == 2        \* params['default_memory_size'] ranges over 1..MaxMem

\* ------------------------------------------------------- Cell (contract)
None == 0
BaseScore == 1     \* the score reset_score() and a new Cell start from
LethalScore == 0   \* is_dead() is true at or below this score

VARIABLES
    width, height,        \* Surface.width, Surface.height
    map,                  \* Surface.map: rows 0..height-1 of columns 0..width-1
    all_cells,            \* Surface._all_cells
    cells,                \* every Cell object created so far: [id, pos, score, age]
    ID, population, total_alive, total_dead,
    reproduction_ratio, move_ratio, move_chance,   \* numerators over RatioDen
    ageing, interactions,                          \* params
    pc,                   \* the next phase to run
    gen,                  \* the driver's loop variable i (ticks finished)
    iter,                 \* tick()'s loop variable x
    bottom_cells,         \* movement phase: candidates not yet visited
    top_pool, top_quota,  \* reproduction phase: live-set members not yet visited, and how many more are visited
    chosen_cells,         \* reproduction phase: chosen_cells
    raised,               \* the exception that ended the program, or "none"
    trace,                \* history: the phases the current tick() call has run
    births,               \* history: the offspring of the current tick: [child, a, b]
    pop0,                 \* history: population when the current tick() was called
    last,                 \* history: what the last step did
    gene                  \* the Gene under construction or in use, and what was done with it

vars == << width, height, map, all_cells, cells, ID, population, total_alive,
           total_dead, reproduction_ratio, move_ratio, move_chance, ageing,
           interactions, pc, gen, iter, bottom_cells, top_pool,
           top_quota, chosen_cells, raised, trace, births, pop0, last, gene >>

params == << reproduction_ratio, move_ratio, move_chance, ageing, interactions >>
\* width and height never change; no Gene is touched by the Surface's own code
dims == << width, height, gene >>
counters == << ID, population, total_alive, total_dead >>
loopvars == << bottom_cells, top_pool, top_quota, chosen_cells >>

\* ------------------------------------------------------------- Position
Position(x, y) == [x |-> x, y |-> y]

\* Position.__add__
PosAdd(p, q) == Position(p.x + q.x, p.y + q.y)

neighbour_offsets ==
    << Position(-1,-1), Position( 0,-1), Position( 1,-1),
       Position(-1, 0), Position( 0, 0), Position( 1, 0),
       Position(-1, 1), Position( 0, 1), Position( 1, 1) >>

\* ----------------------------------------------------------------- Cell
Cell(id, pos) == [id |-> id, pos |-> pos, score |-> BaseScore, age |-> 0]
get_score(cs, c) == cs[c].score
get_position(cs, c) == cs[c].pos
is_dead(cs, c) == cs[c].score <= LethalScore
Scores == 0..MaxScore

\* -------------------------------------------------------------- Surface
\* a row index clamped to the grid's edge instead of wrapped around it
RowOfClamped(pos) == IF pos.y < 0 THEN 0 ELSE IF pos.y >= height THEN height - 1 ELSE pos.y

\* Python's % with a positive modulus: the result is in 0..n-1 for every integer v
RowOf(pos) == (height + pos.y) % height
ColOf(pos) == (width + pos.x) % width

get(m, pos) == m[RowOf(pos)][ColOf(pos)]

\* set(pos, c) on the surface s = [map, all_cells, raised]; remove(None) of
\* an empty slot raises KeyError before the slot is assigned
set(s, pos, c) ==
    IF s.raised # "none" THEN s
    ELSE IF c = None /\ get(s.map, pos) \notin s.all_cells
         THEN [s EXCEPT !.raised = "KeyError"]
    ELSE [s EXCEPT
            !.all_cells = IF c = None THEN @ \ {get(s.map, pos)} ELSE @ \cup {c},
            !.map = [@ EXCEPT ![RowOf(pos)][ColOf(pos)] = c]]

Surf == [map |-> map, all_cells |-> all_cells, raised |-> raised]

\* the Cells held in the grid m
InGrid(m) == { m[r][c] : r \in 0..(height-1), c \in 0..(width-1) } \ {None}

\* my_map(method): method leaves every Cell c of the grid with score f[c]
MapScores(cs, m, f) ==
    [c \in DOMAIN cs |-> IF c \in InGrid(m) THEN [cs[c] EXCEPT !.score = f[c]] ELSE cs[c]]

get_neighbours(m, cs, c) ==
    { get(m, PosAdd(get_position(cs, c), neighbour_offsets[i])) : i \in 1..9 } \ {None}

\* every neighbouring position, with the test `neighbour is None` left out
empty_neighbour_candidates_any(m, cs, c) ==
    { PosAdd(get_position(cs, c), neighbour_offsets[i]) : i \in 1..9 }

\* the list `candidates` of get_empty_neighbour_position, as a set
empty_neighbour_candidates(m, cs, c) ==
    { PosAdd(get_position(cs, c), neighbour_offsets[i]) : i \in
        { j \in 1..9 : get(m, PosAdd(get_position(cs, c), neighbour_offsets[j])) = None } }

\* round(n * ratio) with ratio = num / RatioDen: Python 3 rounds half to even
Round(n, num) ==
    LET q == (n * num) \div RatioDen
        r == (n * num) % RatioDen
    IN  IF 2 * r < RatioDen THEN q
        ELSE IF 2 * r > RatioDen THEN q + 1
        ELSE IF q % 2 = 0 THEN q ELSE q + 1

\* self.ID += 1
\* an id counter that is handed out without being advanced
NextIDSame(id) == id

NextID(id) == id + 1

\* what a step did: the Cell it visited, the other parent, the slot it used
Step(op, c, other, slot, born) == [op |-> op, cell |-> c, other |-> other, slot |-> slot, born |-> born]
NoStep(op) == Step(op, None, None, Position(0, 0), None)

\* ---------------------------------------------------------- ScoreMatrix
SCORE_CC == 3
SCORE_CD == 0
SCORE_DD == 1
SCORE_DC == 5

\* getScore with the results of (d, c) and (d, d) exchanged
getScoreSwapped(myChoice, theirChoice) ==
    IF myChoice = "c" /\ theirChoice = "c" THEN SCORE_CC
    ELSE IF myChoice = "c" /\ theirChoice = "d" THEN SCORE_CD
    ELSE IF myChoice = "d" /\ theirChoice = "c" THEN SCORE_DD
    ELSE SCORE_DC

getScore(myChoice, theirChoice) ==
    IF myChoice = "c" /\ theirChoice = "c" THEN SCORE_CC
    ELSE IF myChoice = "c" /\ theirChoice = "d" THEN SCORE_CD
    ELSE IF myChoice = "d" /\ theirChoice = "c" THEN SCORE_DC
    ELSE SCORE_DD

\* ----------------------------------------------------------------- Gene
Moves == {"c", "d"}

\* the sequences _code can be: element i + 1 here is Python's _code[i]
Codes == UNION { [1..n -> Moves] : n \in 2..MaxLen }

\* the sequences history.get_mem_seq() can be
Histories == UNION { [1..n -> Moves] : n \in 0..MaxHist }

\* a Gene object and, as history, what was last asked of it: the history,
\* the offset get_choice_at read, the decision, the opponent's move and the
\* payoff scored
NoGene == [code |-> << >>, size_mem |-> 0, mutations |-> 0, history |-> << >>,
           read |-> 0, decision |-> "none", their |-> "none", payoff |-> -1]

\* ag.isValidPosition(code, pos): pos is an index of the sequence
isValidPosition(code, pos) == pos >= 0 /\ pos < Len(code)

\* get_choice_at(x): self._code[x]
get_choice_at(code, x) ==
    IF x >= 0 /\ x < Len(code) THEN code[x + 1] ELSE "IndexError"

\* the loop of get_decision over the moves of history from position k on:
\* the offset handed to get_choice_at
RECURSIVE decision_offset(_, _, _, _)
decision_offset(code, history, k, offset) ==
    IF k > Len(history) THEN offset
    ELSE IF history[k] = "c"
         THEN IF ~ isValidPosition(code, 2 * offset) THEN offset
              ELSE decision_offset(code, history, k + 1, 2 * offset)
         ELSE IF ~ isValidPosition(code, 2 * offset + 1) THEN offset
              ELSE decision_offset(code, history, k + 1, (2 * offset) + 1)

\* get_decision starting at offset 0 instead of the root, offset 1
get_decision_offset_from_zero(code, history) == decision_offset(code, history, 1, 0)

\* the offset get_decision reads: the walk starts at offset = 1
get_decision_offset(code, history) == decision_offset(code, history, 1, 1)

get_decision(code, history) == get_choice_at(code, get_decision_offset(code, history))

\* int(math.log(n, 2)) for n >= 1 (exact for every n below 2^16)
RECURSIVE FloorLog2(_)
FloorLog2(n) == IF n < 2 THEN 0 ELSE 1 + FloorLog2(n \div 2)

update_mem_size(g) == [g EXCEPT !.size_mem = FloorLog2(Len(g.code))]

\* ag.ProduceRandomGene(size): some sequence of random moves
ProduceRandomGene(size) == Codes

\* ag.recombinate(gene_a, gene_b): a crossover of the parents' sequences at
\* some point k
recombinate(code_a, code_b) ==
    { SubSeq(code_a, 1, k) \o SubSeq(code_b, k + 1, Len(code_b)) :
        k \in 0..(IF Len(code_a) < Len(code_b) THEN Len(code_a) ELSE Len(code_b)) }

\* what ag.mutate(code) can leave in code: one symbol flipped, the last
\* symbol dropped or a symbol appended, or nothing changed
Mutations(code) ==
    { m \in Codes :
        \/ /\ Len(m) = Len(code)
           /\ Cardinality({ i \in 1..Len(code) : m[i] # code[i] }) <= 1
        \/ /\ Len(m) = Len(code) + 1
           /\ SubSeq(m, 1, Len(code)) = code
        \/ /\ Len(m) = Len(code) - 1
           /\ SubSeq(code, 1, Len(m)) = m }

\* ag.mutate(self._code), leaving m
mutate(g, m) == [g EXCEPT !.code = m, !.mutations = @ + 1]

\* Gene.__init__ without the call of update_mem_size
GeneInitStale(default_memory_size, produced, m) ==
    mutate([NoGene EXCEPT !.size_mem = default_memory_size, !.code = produced], m)

\* Gene.__init__: either branch sets _code, mutates it, updates the size
GeneInit(default_memory_size, produced, m) ==
    update_mem_size(
        mutate([NoGene EXCEPT !.size_mem = default_memory_size, !.code = produced], m))

\* ------------------------------------------------------------------ Init
\* Surface.__init__(width, height), and the model's bookkeeping
Constructed ==
    /\ width \in 1..MaxWidth
    /\ height \in 1..MaxHeight
    /\ map = [r \in 0..(height-1) |-> [c \in 0..(width-1) |-> None]]
    /\ all_cells = {}
    /\ cells = << >>
    /\ ID = 0
    /\ population = 0
    /\ total_alive = width * height
    /\ total_dead = 0
    /\ gen = 0
    /\ iter = 0
    /\ bottom_cells = << >>
    /\ top_pool = {}
    /\ top_quota = 0
    /\ chosen_cells = {}
    /\ raised = "none"
    /\ trace = << >>
    /\ births = << >>
    /\ pop0 = 0
    /\ last = NoStep("init")
    /\ gene = NoGene

\* the driver: a Surface right after construction, and the params
Init ==
    /\ Constructed
    /\ reproduction_ratio \in 0..RatioDen
    /\ move_ratio \in 1..RatioDen
    /\ move_chance = RatioDen - 1
    /\ ageing \in BOOLEAN
    /\ interactions \in 0..MaxInters
    /\ pc = "seed"

\* ------------------------------------------------------------------ seed
\* the driver's seeding loop, iterations i = k .. width*height-1
RECURSIVE SeedFrom(_, _)
SeedFrom(st, k) ==
    IF k >= width * height THEN st
    ELSE LET pos == Position(k \div width, k % height)
             c == Len(st.cells) + 1
             s2 == set([map |-> st.map, all_cells |-> st.all_cells, raised |-> "none"], pos, c)
         IN  SeedFrom([cells |-> Append(st.cells, Cell(st.ID, pos)),
                       ID |-> NextID(st.ID),
                       population |-> st.population + 1,
                       map |-> s2.map,
                       all_cells |-> s2.all_cells], k + 1)

\* where the driver goes after seeding or after a tick
\* params['generations']: a run of fewer ticks is a prefix of this one
generations == MaxGens

NextTickPc(g) == IF g < generations THEN "clean" ELSE "done"

Seed ==
    /\ pc = "seed"
    /\ LET st == SeedFrom([cells |-> cells, ID |-> ID, population |-> population,
                           map |-> map, all_cells |-> all_cells], 0)
       IN  /\ cells' = st.cells
           /\ ID' = st.ID
           /\ population' = st.population
           /\ map' = st.map
           /\ all_cells' = st.all_cells
    /\ pc' = NextTickPc(0)
    /\ last' = NoStep("seed")
    /\ UNCHANGED << dims, params, total_alive, total_dead, gen, iter, loopvars,
                    raised, trace, births, pop0 >>

\* ------------------------------------------------------------------ tick
\* the phase after the age phase and after each movement phase: the loop
\* `for x in range(inters)` with x = i
LoopPc(i) == IF i < interactions THEN "interact" ELSE "reproduction"

\* __clean: clear_interactions and reset_score on every Cell of the grid.
\* It is the first statement of tick(), so the step also enters the call.
Clean ==
    /\ pc = "clean"
    /\ cells' = MapScores(cells, map, [c \in InGrid(map) |-> BaseScore])
    /\ pc' = IF ageing THEN "age" ELSE LoopPc(0)
    /\ iter' = 0
    /\ trace' = << "clean" >>
    /\ births' = << >>
    /\ pop0' = population
    /\ last' = NoStep("clean")
    /\ UNCHANGED << dims, params, map, all_cells, counters, gen, loopvars, raised >>

\* __age_tick: c.age() on every Cell of the grid
AgeTick ==
    /\ pc = "age"
    /\ cells' = [c \in DOMAIN cells |->
                    IF c \in InGrid(map) THEN [cells[c] EXCEPT !.age = @ + 1] ELSE cells[c]]
    /\ pc' = LoopPc(0)
    /\ trace' = Append(trace, "age")
    /\ last' = NoStep("age")
    /\ UNCHANGED << dims, params, map, all_cells, counters, gen, iter, loopvars,
                    raised, births, pop0 >>

\* __interaction_tick: c.interact(get_neighbours(c)) on every Cell of the
\* grid; each Cell ends with some score
InteractionTick ==
    /\ pc = "interact"
    /\ \E f \in [InGrid(map) -> Scores] :
          cells' = MapScores(cells, map, f)
    /\ pc' = "death"
    /\ trace' = Append(trace, "interact")
    /\ last' = NoStep("interact")
    /\ UNCHANGED << dims, params, map, all_cells, counters, gen, iter, loopvars,
                    raised, births, pop0 >>

\* the index pair __death_tick uses for loop variables x, y: self.map[x][y]
DeathRow(x, y) == x
DeathCol(x, y) == y

\* a dead Cell is cleared from its slot without being counted
DeathRemoveUncounted(st, r, c) ==
    [st EXCEPT !.map = [@ EXCEPT ![r][c] = None]]

\* what __death_tick does to one occupied slot holding a dead Cell
DeathRemove(st, r, c) ==
    [st EXCEPT !.map = [@ EXCEPT ![r][c] = None],
               !.population = @ - 1,
               !.total_dead = @ + 1]

\* __death_tick from loop position k (y = k div width, x = k mod width);
\* a list index out of range raises IndexError and ends the scan
RECURSIVE DeathScan(_, _)
DeathScan(st, k) ==
    IF k >= width * height THEN st
    ELSE LET y == k \div width
             x == k % width
             r == DeathRow(x, y)
             c == DeathCol(x, y)
         IN  IF r >= height \/ c >= width
             THEN [st EXCEPT !.raised = "IndexError"]
             ELSE IF st.map[r][c] # None /\ is_dead(cells, st.map[r][c])
                  THEN DeathScan(DeathRemove(st, r, c), k + 1)
                  ELSE DeathScan(st, k + 1)

DeathTick ==
    /\ pc = "death"
    /\ LET st == DeathScan([map |-> map, all_cells |-> all_cells,
                            population |-> population,
                            total_dead |-> total_dead, raised |-> "none"], 0)
       IN  /\ map' = st.map
           /\ all_cells' = st.all_cells
           /\ population' = st.population
           /\ total_dead' = st.total_dead
           /\ raised' = st.raised
           /\ pc' = IF st.raised = "none" THEN "movement" ELSE "crashed"
    /\ trace' = Append(trace, "death")
    /\ last' = NoStep("death")
    /\ UNCHANGED << dims, params, cells, ID, total_alive, gen, iter, loopvars,
                    births, pop0 >>

\* get_all(): the Cells of the grid in row-major order, from slot k on
RECURSIVE get_all_from(_, _)
get_all_from(m, k) ==
    IF k >= width * height THEN << >>
    ELSE LET c == get(m, Position(k % width, k \div width))
         IN  IF c # None THEN << c >> \o get_all_from(m, k + 1)
             ELSE get_all_from(m, k + 1)

get_all(m) == get_all_from(m, 0)

\* sorted(seq, key=get_score): stable, ascending
RECURSIVE SortedByScore(_, _)
SortedByScore(cs, seq) ==
    IF seq = << >> THEN << >>
    ELSE LET i == CHOOSE i \in 1..Len(seq) :
                    /\ \A j \in 1..Len(seq) : get_score(cs, seq[i]) <= get_score(cs, seq[j])
                    /\ \A j \in 1..(i-1) : get_score(cs, seq[j]) > get_score(cs, seq[i])
         IN  << seq[i] >> \o SortedByScore(cs, SubSeq(seq, 1, i-1) \o SubSeq(seq, i+1, Len(seq)))

\* __alt_movement_tick up to its loop: bottom_cells
AltMovementTick ==
    /\ pc = "movement"
    /\ LET all == get_all(map)
       IN  bottom_cells' = SubSeq(SortedByScore(cells, all), 1, Round(Len(all), move_ratio))
    /\ pc' = "moving"
    /\ trace' = Append(trace, "movement")
    /\ last' = NoStep("movement")
    /\ UNCHANGED << dims, params, map, all_cells, cells, counters, gen, iter,
                    top_pool, top_quota, chosen_cells, raised, births, pop0 >>

\* random.random() > move_chance: some draw in [0, 1) skips the Cell iff
\* move_chance < 1, and some draw (0.0 at least) lets it through
MaySkipMove == move_chance < RatioDen

\* the loop body for c = bottom_cells[0]: the draw skips c
MoveSkip ==
    /\ pc = "moving"
    /\ bottom_cells # << >>
    /\ MaySkipMove
    /\ bottom_cells' = Tail(bottom_cells)
    /\ last' = Step("moveskip", Head(bottom_cells), None, Position(0, 0), None)
    /\ UNCHANGED << dims, params, map, all_cells, cells, counters, pc, gen, iter,
                    top_pool, top_quota, chosen_cells, raised, trace, births, pop0 >>

\* the loop body for c = bottom_cells[0]: no open position
MoveStay ==
    /\ pc = "moving"
    /\ bottom_cells # << >>
    /\ empty_neighbour_candidates(map, cells, Head(bottom_cells)) = {}
    /\ bottom_cells' = Tail(bottom_cells)
    /\ last' = Step("movestay", Head(bottom_cells), None, Position(0, 0), None)
    /\ UNCHANGED << dims, params, map, all_cells, cells, counters, pc, gen, iter,
                    top_pool, top_quota, chosen_cells, raised, trace, births, pop0 >>

\* __move_cell without the call that empties the slot the Cell leaves
move_cell_no_clear(s, cs, c, destination) ==
    LET dest == Position((destination.x + width) % width,
                         (destination.y + height) % height)
        s2 == set(s, dest, c)
    IN  [surf |-> s2, cells |-> [cs EXCEPT ![c].pos = dest]]

\* __move_cell without the call of c.set_position
move_cell_position_kept(s, cs, c, destination) ==
    LET dest == Position((destination.x + width) % width,
                         (destination.y + height) % height)
        s1 == set(s, get_position(cs, c), None)
        s2 == set(s1, dest, c)
    IN  [surf |-> s2, cells |-> cs]

\* __move_cell(c, destination) on the surface s and the Cell objects cs
move_cell(s, cs, c, destination) ==
    LET dest == Position((destination.x + width) % width,
                         (destination.y + height) % height)
        s1 == set(s, get_position(cs, c), None)
        s2 == set(s1, dest, c)
    IN  [surf |-> s2, cells |-> [cs EXCEPT ![c].pos = dest]]

\* the loop body for c = bottom_cells[0]: c moves to a random open position
MoveGo ==
    /\ pc = "moving"
    /\ bottom_cells # << >>
    /\ LET c == Head(bottom_cells)
       IN  \E open_position \in empty_neighbour_candidates(map, cells, c) :
              LET mv == move_cell(Surf, cells, c, open_position)
              IN  /\ map' = mv.surf.map
                  /\ all_cells' = mv.surf.all_cells
                  /\ raised' = mv.surf.raised
                  /\ cells' = mv.cells
                  /\ pc' = IF mv.surf.raised = "none" THEN pc ELSE "crashed"
                  /\ last' = Step("move", c, None, open_position, None)
    /\ bottom_cells' = Tail(bottom_cells)
    /\ UNCHANGED << dims, params, counters, gen, iter, top_pool, top_quota,
                    chosen_cells, trace, births, pop0 >>

\* the movement loop is exhausted: the next iteration of tick()'s loop
MoveEnd ==
    /\ pc = "moving"
    /\ bottom_cells = << >>
    /\ iter' = iter + 1
    /\ pc' = LoopPc(iter + 1)
    /\ last' = NoStep("moveend")
    /\ UNCHANGED << dims, params, map, all_cells, cells, counters, gen, loopvars,
                    raised, trace, births, pop0 >>

\* ----------------------------------------------------------- reproduction
\* __reproduction_tick up to its loop. top_cells is the first
\* round(len(_all_cells) * ratio) members of the live-set in descending
\* score order; the order among equal scores is the set's iteration order,
\* so the loop visits, each time, any not yet visited member of highest score.
ReproductionTick ==
    /\ pc = "reproduction"
    /\ top_pool' = all_cells
    /\ top_quota' = Round(Cardinality(all_cells), reproduction_ratio)
    /\ chosen_cells' = {}
    /\ pc' = "reproducing"
    /\ trace' = Append(trace, "reproduction")
    /\ last' = NoStep("reproduction")
    /\ UNCHANGED << dims, params, map, all_cells, cells, counters, gen, iter,
                    bottom_cells, raised, births, pop0 >>

\* the Cells that can be the next element of top_cells
TopNext == { c \in top_pool : \A d \in top_pool : 0 - get_score(cells, c) <= 0 - get_score(cells, d) }

\* max(neighbours, key=lambda c: -c.get_score()): any neighbour of greatest key
best_neighbours(cs, neighbours) ==
    { n \in neighbours : \A o \in neighbours : 0 - get_score(cs, n) >= 0 - get_score(cs, o) }

\* the membership test of chosen_cells left out
not_chosen_unchecked(chosen, x) == TRUE

\* `x not in chosen_cells`
not_chosen(chosen, x) == x \notin chosen

\* every loop body removes its Cell from the cells still to visit
Visit(c) ==
    /\ top_pool' = top_pool \ {c}
    /\ top_quota' = top_quota - 1

\* the loop body for c: c is already chosen
ReproSkipChosen ==
    /\ pc = "reproducing"
    /\ top_quota > 0
    /\ \E c \in TopNext :
          /\ ~ not_chosen(chosen_cells, c)
          /\ Visit(c)
          /\ last' = Step("skipchosen", c, None, Position(0, 0), None)
    /\ UNCHANGED << dims, params, map, all_cells, cells, counters, pc, gen, iter,
                    bottom_cells, chosen_cells, raised, trace, births, pop0 >>

\* the loop body for c: open_position is None
ReproNoOpen ==
    /\ pc = "reproducing"
    /\ top_quota > 0
    /\ \E c \in TopNext :
          /\ not_chosen(chosen_cells, c)
          /\ empty_neighbour_candidates(map, cells, c) = {}
          /\ Visit(c)
          /\ last' = Step("noopen", c, None, Position(0, 0), None)
    /\ UNCHANGED << dims, params, map, all_cells, cells, counters, pc, gen, iter,
                    bottom_cells, chosen_cells, raised, trace, births, pop0 >>

\* the loop body for c: there is an open position and no neighbour
ReproNoNeighbours ==
    /\ pc = "reproducing"
    /\ top_quota > 0
    /\ \E c \in TopNext :
          /\ not_chosen(chosen_cells, c)
          /\ empty_neighbour_candidates(map, cells, c) # {}
          /\ get_neighbours(map, cells, c) = {}
          /\ Visit(c)
          /\ last' = Step("noneighbours", c, None, Position(0, 0), None)
    /\ UNCHANGED << dims, params, map, all_cells, cells, counters, pc, gen, iter,
                    bottom_cells, chosen_cells, raised, trace, births, pop0 >>

\* the loop body for c: best_neighbour is already chosen
ReproBestTaken ==
    /\ pc = "reproducing"
    /\ top_quota > 0
    /\ \E c \in TopNext :
          /\ not_chosen(chosen_cells, c)
          /\ \E open_position \in empty_neighbour_candidates(map, cells, c) :
             \E best_neighbour \in best_neighbours(cells, get_neighbours(map, cells, c)) :
                /\ ~ not_chosen(chosen_cells, best_neighbour)
                /\ last' = Step("besttaken", c, best_neighbour, Position(0, 0), None)
          /\ Visit(c)
    /\ UNCHANGED << dims, params, map, all_cells, cells, counters, pc, gen, iter,
                    bottom_cells, chosen_cells, raised, trace, births, pop0 >>

\* the loop body for c: an offspring of c and best_neighbour is created at
\* open_position
ReproBirth ==
    /\ pc = "reproducing"
    /\ top_quota > 0
    /\ \E c \in TopNext :
          /\ not_chosen(chosen_cells, c)
          /\ \E open_position \in empty_neighbour_candidates(map, cells, c) :
             \E best_neighbour \in best_neighbours(cells, get_neighbours(map, cells, c)) :
                /\ not_chosen(chosen_cells, best_neighbour)
                /\ chosen_cells' = chosen_cells \cup {c, best_neighbour}
                /\ LET child == Len(cells) + 1
                       s2 == set(Surf, open_position, child)
                   IN  /\ cells' = Append(cells, Cell(ID, open_position))
                       /\ map' = s2.map
                       /\ all_cells' = s2.all_cells
                       /\ births' = Append(births, [child |-> child, a |-> c,
                                                    b |-> best_neighbour])
                       /\ last' = Step("birth", c, best_neighbour, open_position, child)
          /\ Visit(c)
    /\ ID' = NextID(ID)
    /\ population' = population + 1
    /\ total_alive' = total_alive + 1
    /\ UNCHANGED << dims, params, total_dead, pc, gen, iter, bottom_cells,
                    raised, trace, pop0 >>

\* top_cells is exhausted: tick() returns to the driver's loop
ReproEnd ==
    /\ pc = "reproducing"
    /\ top_quota = 0
    /\ gen' = gen + 1
    /\ pc' = NextTickPc(gen + 1)
    /\ last' = NoStep("return")
    /\ UNCHANGED << dims, params, map, all_cells, cells, counters, iter, loopvars,
                    raised, trace, births, pop0 >>

\* ------------------------------------------------- callers of get and set
\* a Surface right after construction, in the hands of a caller of set()
InitApi ==
    /\ Constructed
    /\ reproduction_ratio = 0
    /\ move_ratio = RatioDen
    /\ move_chance = RatioDen - 1
    /\ ageing = FALSE
    /\ interactions = 0
    /\ pc = "caller"

Coords == (0 - MaxCoord)..MaxCoord

\* the caller makes a Cell and sets it at pos (set() neither reads nor
\* writes the position the Cell itself stores)
CallSetNew ==
    /\ pc = "caller"
    /\ Len(cells) < MaxApiCells
    /\ \E x \in Coords, y \in Coords :
          LET pos == Position(x, y)
              c == Len(cells) + 1
              s2 == set(Surf, pos, c)
          IN  /\ cells' = Append(cells, Cell(ID, Position(0, 0)))
              /\ map' = s2.map
              /\ all_cells' = s2.all_cells
              /\ last' = Step("set", c, get(map, pos), pos, None)
    /\ ID' = NextID(ID)
    /\ population' = population + 1
    /\ UNCHANGED << dims, params, total_alive, total_dead, pc, gen, iter, loopvars,
                    raised, trace, births, pop0 >>

\* the caller calls set(pos, c) with None or a Cell it holds
CallSet ==
    /\ pc = "caller"
    /\ \E x \in Coords, y \in Coords, c \in {None} \cup DOMAIN cells :
          LET pos == Position(x, y)
              s2 == set(Surf, pos, c)
          IN  /\ map' = s2.map
              /\ all_cells' = s2.all_cells
              /\ raised' = s2.raised
              /\ pc' = IF s2.raised = "none" THEN pc ELSE "crashed"
              /\ last' = Step("set", c, get(map, pos), pos, None)
    /\ UNCHANGED << dims, params, cells, counters, gen, iter, loopvars,
                    trace, births, pop0 >>

NextApi == CallSetNew \/ CallSet

SpecSet == InitApi /\ [][NextApi]_vars

\* ------------------------------------------- users of Gene and ScoreMatrix
\* no Surface is involved: a Gene is made, asked for decisions, and scored
InitGene ==
    /\ Constructed
    /\ width = 1
    /\ height = 1
    /\ reproduction_ratio = 0
    /\ move_ratio = RatioDen
    /\ move_chance = RatioDen - 1
    /\ ageing = FALSE
    /\ interactions = 0
    /\ pc = "gene"

surface == << width, height, map, all_cells, cells, counters, params, pc, gen, iter,
              loopvars, raised, trace, births, pop0 >>

\* Gene(): a founder's Gene
GeneFounder ==
    /\ pc = "gene"
    /\ \E default_memory_size \in 1..MaxMem :
       \E produced \in ProduceRandomGene(default_memory_size) :
       \E m \in Mutations(produced) :
          gene' = GeneInit(default_memory_size, produced, m)
    /\ last' = NoStep("gene_founder")
    /\ UNCHANGED surface

\* Gene(gene_a, gene_b): the Gene of an offspring of this Gene and another
GeneChild ==
    /\ pc = "gene"
    /\ gene.mutations > 0
    /\ \E default_memory_size \in 1..MaxMem :
       \E code_b \in Codes :
       \E produced \in recombinate(gene.code, code_b) :
       \E m \in Mutations(produced) :
          gene' = GeneInit(default_memory_size, produced, m)
    /\ last' = NoStep("gene_child")
    /\ UNCHANGED surface

\* get_decision(history)
Decide ==
    /\ pc = "gene"
    /\ gene.mutations > 0
    /\ \E history \in Histories :
          gene' = [gene EXCEPT !.history = history,
                               !.read = get_decision_offset(gene.code, history),
                               !.decision = get_decision(gene.code, history),
                               !.their = "none",
                               !.payoff = -1]
    /\ last' = NoStep("decide")
    /\ UNCHANGED surface

\* getScore(myChoice, theirChoice) for the decision and an opponent's move
Score ==
    /\ pc = "gene"
    /\ gene.decision \in Moves
    /\ \E theirChoice \in Moves :
          gene' = [gene EXCEPT !.their = theirChoice,
                               !.payoff = getScore(gene.decision, theirChoice)]
    /\ last' = NoStep("score")
    /\ UNCHANGED surface

NextGene == GeneFounder \/ GeneChild \/ Decide \/ Score

SpecGene == InitGene /\ [][NextGene]_vars

Next ==
    \/ Seed \/ Clean \/ AgeTick \/ InteractionTick \/ DeathTick
    \/ AltMovementTick \/ MoveSkip \/ MoveStay \/ MoveGo \/ MoveEnd
    \/ ReproductionTick \/ ReproSkipChosen \/ ReproNoOpen \/ ReproNoNeighbours
    \/ ReproBestTaken \/ ReproBirth \/ ReproEnd

Spec == Init /\ [][Next]_vars
\* ================================================================ claims
\* the slots of the grid m that hold the Cell c
SlotsOf(m, c) == { rk \in (0..(height-1)) \X (0..(width-1)) : m[rk[1]][rk[2]] = c }

\* grid and live-set agree: the Cells in the grid are the Cells of the
\* live-set, and each is held in exactly one slot
Agree(m, all) ==
    /\ InGrid(m) = all
    /\ \A c \in all : Cardinality(SlotsOf(m, c)) = 1

\* a tick() call is over: it returned, or an exception ended it
TickOver == pc \in {"done", "crashed"} \/ (pc = "clean" /\ gen > 0)

\* C1: after seeding and after every tick(), the grid and the live-set
\* agree: every Cell in a slot is in _all_cells, every Cell of _all_cells is
\* in exactly one slot, and no Cell is in two slots.
C1_GridLiveSetAgree ==
    (pc \in {"clean", "done"}) => Agree(map, all_cells)

\* C2: the death phase removes every dead Cell, and only the dead Cells,
\* from its slot and from the live-set, and counts each of them once in
\* population and in total_dead.
C2_DeathRemovesDead ==
    [][pc = "death" =>
        LET dead == { c \in InGrid(map) : is_dead(cells, c) }
        IN  /\ raised' = "none"
            /\ InGrid(map') = InGrid(map) \ dead
            /\ all_cells' = all_cells \ dead
            /\ population' = population - Cardinality(dead)
            /\ total_dead' = total_dead + Cardinality(dead)]_vars

\* C3: a call set(pos, x) made when grid and live-set agree leaves them
\* agreeing, raises nothing, leaves x in the slot of pos, leaves a Cell x in
\* the live-set, and, for x = None, leaves the previous occupant out of it.
C3_SetKeepsAgreement ==
    [][(pc = "caller" /\ last'.op = "set" /\ Agree(map, all_cells)) =>
        /\ raised' = "none"
        /\ Agree(map', all_cells')
        /\ get(map', last'.slot) = last'.cell
        /\ (last'.cell # None => last'.cell \in all_cells')
        /\ (last'.cell = None => last'.other \notin all_cells')]_vars

\* C4: the offspring a tick creates number at most
\* floor(reproduction_ratio * population at the start of the tick).
C4_BirthBound ==
    Len(births) <= (reproduction_ratio * pop0) \div RatioDen

\* C5: the second parent chosen for a candidate is a neighbour of the
\* candidate whose score is at least the score of every neighbour.
C5_BestNeighbourScoresHighest ==
    [][(pc = "reproducing" /\ last'.op \in {"birth", "besttaken"}) =>
        LET nb == get_neighbours(map, cells, last'.cell)
        IN  /\ last'.other \in nb
            /\ \A n \in nb : get_score(cells, last'.other) >= get_score(cells, n)]_vars

\* a reproduction step that creates nothing
NoBirthStep ==
    /\ map' = map
    /\ all_cells' = all_cells
    /\ cells' = cells
    /\ births' = births
    /\ UNCHANGED counters

\* no Cell is a parent in two of the births bs
ParentsDisjoint(bs) ==
    \A i \in 1..Len(bs), j \in 1..Len(bs) :
        i # j => {bs[i].a, bs[i].b} \cap {bs[j].a, bs[j].b} = {}

\* C6: within one reproduction phase no Cell is a parent in two births; the
\* parents of a birth were not consumed before it and are consumed after it;
\* a candidate that is consumed, or has no empty adjacent slot, or whose
\* chosen neighbour is consumed, creates nothing and changes neither grid
\* nor counters.
C6_ParentsUsedOnce ==
    [][pc = "reproducing" =>
        /\ ParentsDisjoint(births')
        /\ births' # births =>
              LET b == births'[Len(births')]
              IN  /\ {b.a, b.b} \cap chosen_cells = {}
                  /\ {b.a, b.b} \subseteq chosen_cells'
        /\ \A c \in top_pool \ top_pool' :
              /\ c \in chosen_cells => NoBirthStep
              /\ (\A i \in 1..9 : get(map, PosAdd(cells[c].pos, neighbour_offsets[i])) # None)
                    => NoBirthStep
              /\ (last'.op = "besttaken" /\ last'.cell = c) =>
                    (last'.other \in chosen_cells /\ NoBirthStep)]_vars

C6_Witness ==
    /\ last.op = "besttaken"
    /\ Len(births) >= 1
    /\ last.other \in {births[1].a, births[1].b}

\* the slot (row, column) that holds c in the grid m
SlotOf(m, c) == CHOOSE rk \in SlotsOf(m, c) : TRUE

\* slot q lies in the 8-neighbourhood, with wraparound, of slot p
NearSlot(p, q) ==
    \E dx \in -1..1, dy \in -1..1 :
        /\ q[1] = (p[1] + dy + height) % height
        /\ q[2] = (p[2] + dx + width) % width

RECURSIVE Repeat(_, _)
Repeat(s, r) == IF r = 0 THEN << >> ELSE s \o Repeat(s, r - 1)

\* C8: a call tick(n) runs clean, then age when ageing is configured, then
\* n times interact, death, movement, then reproduction once.
C8_PhaseOrder ==
    TickOver =>
        trace = << "clean" >> \o (IF ageing THEN << "age" >> ELSE << >>)
                \o Repeat(<< "interact", "death", "movement" >>, interactions)
                \o << "reproduction" >>

\* coordinates well outside the grid on both sides
Far == MaxCoord + MaxWidth + MaxHeight

\* C9: get at (x, y) and at (x + width, y + height) read the same slot, for
\* negative coordinates too, and after set(pos, c) a get at every position
\* congruent to pos modulo (width, height) returns c.
C9_ToroidalIndexing ==
    /\ \A x \in (0 - Far)..Far, y \in (0 - Far)..Far :
          /\ get(map, Position(x, y)) = get(map, Position(x + width, y + height))
          /\ get(map, Position(x, y)) = map[y % height][x % width]
    /\ (last.op = "set" /\ raised = "none") =>
          \A i \in -2..2, j \in -2..2 :
              get(map, Position(last.slot.x + i * width, last.slot.y + j * height)) = last.cell

C9_Witness ==
    /\ last.op = "set"
    /\ raised = "none"
    /\ last.cell # None
    /\ last.slot.x < 0
    /\ last.slot.y < 0
    /\ width > 1
    /\ height > 1

\* C10: on a 1 x 1 grid no step after seeding creates an offspring: ID and
\* total_alive keep their values and population does not grow.
C10_NoBirthOnSingleSlot ==
    [][(width = 1 /\ height = 1 /\ pc # "seed") =>
        /\ ID' = ID
        /\ total_alive' = total_alive
        /\ population' <= population
        /\ births' = << >>
        /\ Len(cells') = 1]_vars

C10_Witness ==
    /\ width = 1
    /\ height = 1
    /\ population = 0
    /\ total_dead = 1
    /\ last.op = "noneighbours"

\* C11: right after the driver's seeding every grid slot holds a founder, no
\* two founders lie in the same slot, and the live-set and population both
\* count width * height.
C11_SeedingFillsGrid ==
    last.op = "seed" =>
        /\ \A r \in 0..(height - 1), k \in 0..(width - 1) : map[r][k] # None
        /\ \A i, j \in 1..Len(cells) :
              i # j => << RowOf(cells[i].pos), ColOf(cells[i].pos) >>
                        # << RowOf(cells[j].pos), ColOf(cells[j].pos) >>
        /\ Cardinality(all_cells) = width * height
        /\ population = width * height

\* the index of the node the first k moves of history lead to from the root
RECURSIVE PathIndex(_, _)
PathIndex(history, k) ==
    IF k = 0 THEN 1
    ELSE 2 * PathIndex(history, k - 1) + (IF history[k] = "c" THEN 0 ELSE 1)

\* the node reached: that of the longest prefix of history that stays inside
\* a sequence of length n
NodeReached(n, history) ==
    LET k == CHOOSE k \in 0..Len(history) :
                 /\ PathIndex(history, k) < n
                 /\ \A j \in (k + 1)..Len(history) : PathIndex(history, j) >= n
    IN  PathIndex(history, k)

\* C12: get_decision reads the sequence at an index in 1..length-1, namely at
\* the node the history leads to from the root before it ends or leaves the
\* sequence, and returns the symbol there, which is 'c' or 'd'.
C12_DecisionInBounds ==
    gene.decision # "none" =>
        /\ gene.read \in 1..(Len(gene.code) - 1)
        /\ gene.read = NodeReached(Len(gene.code), gene.history)
        /\ gene.decision = gene.code[gene.read + 1]
        /\ gene.decision \in Moves

C12_Witness ==
    /\ last.op = "decide"
    /\ Len(gene.history) = MaxHist
    /\ Len(gene.code) = 3
    /\ gene.read = 2
    /\ gene.decision = "d"

\* C13: getScore gives 3 for (c, c), 0 for (c, d), 5 for (d, c), 1 for (d, d).
C13_ScoreTable ==
    gene.payoff # -1 =>
        /\ (gene.decision = "c" /\ gene.their = "c") => gene.payoff = 3
        /\ (gene.decision = "c" /\ gene.their = "d") => gene.payoff = 0
        /\ (gene.decision = "d" /\ gene.their = "c") => gene.payoff = 5
        /\ (gene.decision = "d" /\ gene.their = "d") => gene.payoff = 1

C13_Witness ==
    /\ last.op = "score"
    /\ gene.decision = "d"
    /\ gene.their = "c"
    /\ gene.payoff = 5

\* C14: all Cells ever created carry pairwise different ids, and the id
\* counter never decreases.
C14_IdsUnique ==
    [][/\ ID' >= ID
       /\ \A i, j \in 1..Len(cells') : i # j => cells'[i].id # cells'[j].id]_vars

C14_Witness ==
    /\ births # << >>
    /\ Len(cells) >= 3
    /\ \E i \in 1..Len(births) : cells[births[i].child].id = ID - 1

\* C15: a constructed Gene, founder or offspring, was mutated exactly once
\* and its memory size is floor(log2(length of its sequence)).
C15_MemSizeRecomputed ==
    gene # NoGene =>
        /\ gene.mutations = 1
        /\ 2 ^ gene.size_mem <= Len(gene.code)
        /\ Len(gene.code) < 2 ^ (gene.size_mem + 1)

C15_Witness ==
    /\ last.op = "gene_child"
    /\ Len(gene.code) = MaxLen
    /\ gene.size_mem = 2

\* C16: no phase of a tick indexes the grid outside rows 0..height-1 and
\* columns 0..width-1, whatever width and height are, and the death phase
\* looks at every grid slot exactly once.
C16_GridAccessInRange ==
    /\ raised # "IndexError"
    /\ last.op = "death" =>
          \A r \in 0..(height - 1), k \in 0..(width - 1) :
              Cardinality({ xy \in (0..(width - 1)) \X (0..(height - 1)) :
                              /\ DeathRow(xy[1], xy[2]) = r
                              /\ DeathCol(xy[1], xy[2]) = k }) = 1

\* the steps of the reproduction loop that take a candidate from top_cells
VisitOps == {"skipchosen", "noopen", "noneighbours", "besttaken", "birth"}

\* the Cells that have died so far: those a death phase has met dead, which
\* are the Cells of lethal score held in no slot once a death phase is over
Live(c) == c \in InGrid(map) /\ ~ is_dead(cells, c)

\* C17: each candidate of the reproduction phase and both parents of each
\* offspring are live when they are used: in a grid slot and not dead.
C17_ParentsLive ==
    [][/\ last'.op \in VisitOps => Live(last'.cell)
       /\ last'.op = "birth" => Live(last'.other)]_vars

\* C18: the two parents of every offspring are two different Cells.
C18_ParentsDiffer ==
    \A i \in 1..Len(births) : births[i].a # births[i].b

\* the number of grid slots that hold a Cell
Occupied(m) ==
    Cardinality({ rk \in (0..(height - 1)) \X (0..(width - 1)) : m[rk[1]][rk[2]] # None })

\* what the driver's seeding leaves of a freshly constructed Surface
Seeded ==
    SeedFrom([cells |-> << >>, ID |-> 0, population |-> 0,
              map |-> [r \in 0..(height - 1) |-> [k \in 0..(width - 1) |-> None]],
              all_cells |-> {}], 0)

\* population equals the number of occupied slots right after seeding
SeededConsistent ==
    /\ pc # "seed"
    /\ Seeded.population = Occupied(Seeded.map)

\* C19: when population counts the occupied slots right after seeding, it
\* counts them after every phase and step of every later tick.
C19_PopulationCountsSlots ==
    SeededConsistent => population = Occupied(map)

C19_Witness ==
    /\ SeededConsistent
    /\ last.op = "birth"
    /\ total_dead > 0
    /\ width > 1
    /\ height > 1
    /\ \E i \in 1..(width * height) : cells[i].pos # Seeded.cells[i].pos

\* C20: after seeding, each Cell held in a grid slot stores a position whose
\* row modulo height and column modulo width are that slot, so get at the
\* Cell's position returns the Cell.
C20_PositionMatchesSlot ==
    pc # "seed" =>
        \A r \in 0..(height - 1), k \in 0..(width - 1) :
            map[r][k] # None =>
                /\ RowOf(get_position(cells, map[r][k])) = r
                /\ ColOf(get_position(cells, map[r][k])) = k
                /\ get(map, get_position(cells, map[r][k])) = map[r][k]

C20_Witness ==
    /\ last.op = "birth"
    /\ get_position(cells, last.born).x \notin 0..(width - 1)
    /\ \E i \in 1..(width * height) :
          /\ i \in InGrid(map)
          /\ cells[i].pos # Seeded.cells[i].pos

====
